---- MODULE Spec2Model ----
(***************************************************************************)
(* tmtrack: a Flask REST service for daily task records.                   *)
(*                                                                         *)
(* The model has two parts.  The auth module (src/app/auth.py) is a pair   *)
(* of lookup tables built once at import time and two pure resolvers; the  *)
(* view functions (src/app/api/tasks.py, src/app/api/categories.py) are    *)
(* one action each, run against the two MongoDB collections.               *)
(*                                                                         *)
(* Python values are tagged records: [t |-> "str", s |-> "abc"],           *)
(* [t |-> "float", s |-> "2.5"], [t |-> "datetime", n |-> 3], ...  The tag *)
(* is the name Python's type(v).__name__ gives.  A dict is a function from *)
(* its keys to values.                                                     *)
(***************************************************************************)
EXTENDS Integers, Sequences, FiniteSets, TLC

VARIABLES
    auth_data,              \* parsed user_authentication.json as found at import
    authz_data,             \* parsed user_authorization.json as found at import
    token_to_userid_map,    \* auth._token_to_userid_map
    userid_to_groups_map,   \* auth._userid_to_groups_map
    tasks,                  \* the task collection, in insertion order
    categories,             \* the 'categories' collection, in insertion order
    clock,                  \* the wall clock datetime.now() reads
    uuid_count,             \* how many uuid4() values have been drawn
    routed,                 \* the last URL dispatch: method, path and the view reached
    fresh,                  \* history: the last task created and its request body,
                            \* until a modify request changes that task
    pending,                \* the requests whose store operation has begun, in the
                            \* order they began, each with what it holds and
                            \* whether its write has reached the store
    last                    \* the last call: its request and its response

vars == <<auth_data, authz_data, token_to_userid_map, userid_to_groups_map,
          tasks, categories, clock, uuid_count, routed, fresh, pending, last>>

----------------------------------------------------------------------------
(* Python values *)

PyNone == [t |-> "NoneType"]

PyStr(x) == [t |-> "str", s |-> x]

PyFloat(x) == [t |-> "float", s |-> x]

PyInt(x) == [t |-> "int", s |-> x]

PyBool(x) == [t |-> "bool", s |-> x]

PyList(xs) == [t |-> "list", items |-> xs]

PyDict(d) == [t |-> "dict", d |-> d]

PyDatetime(k) == [t |-> "datetime", n |-> k]

ObjectId(k) == [t |-> "ObjectId", n |-> k]

EmptyDict == [k \in {} |-> PyNone]

\* d[k] = v on a dict
Put(d, k, v) == [x \in DOMAIN d \cup {k} |-> IF x = k THEN v ELSE d[x]]

\* {**a, **b}: b's entries win
Merge(a, b) == [x \in DOMAIN a \cup DOMAIN b |-> IF x \in DOMAIN b THEN b[x] ELSE a[x]]

\* del d[k] / d.pop(k, None)
Del(d, k) == [x \in DOMAIN d \ {k} |-> d[x]]

\* Python truthiness of a value (`if not v`)
Truthy(v) ==
    CASE v.t = "NoneType" -> FALSE
      [] v.t = "str"      -> v.s # ""
      [] v.t = "bool"     -> v.s = "true"
      [] v.t \in {"int", "float"} -> v.s \notin {"0", "0.0"}
      [] v.t = "list"     -> v.items # <<>>
      [] v.t = "dict"     -> DOMAIN v.d # {}
      [] OTHER            -> TRUE

Range(f) == {f[i] : i \in DOMAIN f}

----------------------------------------------------------------------------
(* src/app/auth.py *)

\* A source file as json.load finds it: missing, not JSON, or a list of
\* objects (each a dict from key to string).
SrcMissing == [kind |-> "FileNotFoundError", items |-> <<>>]

SrcInvalid == [kind |-> "JSONDecodeError", items |-> <<>>]

SrcList(items) == [kind |-> "list", items |-> items]

AuthItem(tok, uid) == [k \in {"auth_token", "userid"} |-> IF k = "auth_token" THEN tok ELSE uid]

\* the dict comprehension keeping the first item of each token
RECURSIVE TokenDictCompFirst(_, _)
TokenDictCompFirst(items, acc) ==
    IF items = <<>> THEN acc
    ELSE TokenDictCompFirst(Tail(items),
            IF Head(items)["auth_token"] \in DOMAIN acc THEN acc
            ELSE Put(acc, Head(items)["auth_token"], Head(items)["userid"]))

\* { item['auth_token']: item['userid'] for item in auth_data }: a later item
\* with the same token overwrites an earlier one.
RECURSIVE TokenDictComp(_, _)
TokenDictComp(items, acc) ==
    IF items = <<>> THEN acc
    ELSE TokenDictComp(Tail(items), Put(acc, Head(items)["auth_token"], Head(items)["userid"]))

\* The first half of _load_auth_data: any of the three caught exceptions
\* leaves the map empty.
LoadTokenMap(src) ==
    IF src.kind # "list" THEN EmptyDict
    ELSE IF \E i \in DOMAIN src.items : ~({"auth_token", "userid"} \subseteq DOMAIN src.items[i])
         THEN EmptyDict   \* KeyError
         ELSE TokenDictComp(src.items, EmptyDict)
\* the inversion assigning temp_map[userid] = [group_name] instead of appending
RECURSIVE AppendGroupOverwrite(_, _, _)
AppendGroupOverwrite(userids, group_name, acc) ==
    IF userids = <<>> THEN acc
    ELSE AppendGroupOverwrite(Tail(userids), group_name, Put(acc, Head(userids), <<group_name>>))

\* for userid in group['userids']: temp_map[userid].append(group_name)
RECURSIVE AppendGroup(_, _, _)
AppendGroup(userids, group_name, acc) ==
    IF userids = <<>> THEN acc
    ELSE LET u == Head(userids)
             cur == IF u \in DOMAIN acc THEN acc[u] ELSE <<>>
         IN AppendGroup(Tail(userids), group_name, Put(acc, u, Append(cur, group_name)))

\* for group in authz_data: ...
RECURSIVE InvertGroups(_, _)
InvertGroups(groups, acc) ==
    IF groups = <<>> THEN acc
    ELSE InvertGroups(Tail(groups),
                      AppendGroup(Head(groups).userids, Head(groups).group_name, acc))

\* The second half of _load_auth_data.
LoadGroupsMap(src) ==
    IF src.kind # "list" THEN EmptyDict
    ELSE IF \E i \in DOMAIN src.items : ~({"group_name", "userids"} \subseteq DOMAIN src.items[i])
         THEN EmptyDict   \* KeyError
         ELSE InvertGroups(src.items, EmptyDict)
\* Sources whose JSON is not a list: an object with members, a number.
SrcObject == [kind |-> "dict", items |-> <<>>]

SrcNumber == [kind |-> "number", items |-> <<>>]

\* An entry of a source list is a JSON object (a dict from key to value) or
\* some other JSON value, which the model writes as a Python value.
IsEntryDict(item) == "t" \notin DOMAIN item

\* The exception the loop over a source raises, "" when none: open() and
\* json.load raise for a missing file and for invalid JSON; iterating a
\* number raises TypeError; iterating an object yields its keys, and
\* subscripting a key or any other non-object entry with a string raises
\* TypeError; an object entry without one of the keys raises KeyError.  The
\* first entry in list order that raises decides.
LoadException(src, keys) ==
    IF src.kind \in {"FileNotFoundError", "JSONDecodeError"} THEN src.kind
    ELSE IF src.kind \in {"dict", "number"} THEN "TypeError"
    ELSE LET bad == {i \in DOMAIN src.items :
                        ~IsEntryDict(src.items[i]) \/ ~(keys \subseteq DOMAIN src.items[i])}
         IN IF bad = {} THEN ""
            ELSE LET i == CHOOSE k \in bad : \A j \in bad : k <= j
                 IN IF IsEntryDict(src.items[i]) THEN "KeyError" ELSE "TypeError"

\* except (FileNotFoundError, json.JSONDecodeError, KeyError)
CaughtByLoader == {"FileNotFoundError", "JSONDecodeError", "KeyError"}

\* get_userid_from_token testing `auth_token is None` instead of `not auth_token`
get_userid_from_token_is_none(auth_token) ==
    IF auth_token.t = "NoneType" THEN "guest"
    ELSE IF auth_token.s \in DOMAIN token_to_userid_map
         THEN token_to_userid_map[auth_token.s]
         ELSE "guest"

\* get_userid_from_token(auth_token) on the loaded map
get_userid_from_token(auth_token) ==
    IF ~Truthy(auth_token) THEN "guest"
    ELSE IF auth_token.s \in DOMAIN token_to_userid_map
         THEN token_to_userid_map[auth_token.s]
         ELSE "guest"

\* get_groups_from_userid(userid) on the loaded map
get_groups_from_userid(userid) ==
    IF ~Truthy(userid) THEN <<"Guests">>
    ELSE IF userid.s \in DOMAIN userid_to_groups_map
         THEN userid_to_groups_map[userid.s]
         ELSE <<"Guests">>

----------------------------------------------------------------------------
(* src/app/api/utils.py *)

\* An Authorization header is the sequence auth_header.split(' ') gives;
\* an absent header is NoHeader.
NoHeader == <<>>

\* get_auth_info_from_request(): startswith('Bearer ') holds exactly when
\* the first piece is "Bearer" and a space (so a second piece) follows.
TokenOfHeader(auth_header) ==
    IF auth_header # NoHeader /\ Len(auth_header) >= 2 /\ auth_header[1] = "Bearer"
    THEN PyStr(auth_header[Len(auth_header)])
    ELSE PyNone

get_auth_info_from_request(auth_header) ==
    LET token  == TokenOfHeader(auth_header)
        userid == get_userid_from_token(token)
        groups == get_groups_from_userid(PyStr(userid))
    IN [userid |-> userid, groups |-> groups]

----------------------------------------------------------------------------
(* src/app/api/tasks.py: the schema and the validator *)

\* TASK_FIELDS, in the order the dict literal lists them
TaskFieldOrder ==
    <<"task_id", "userid", "date", "task_name", "category",
      "expected_hours", "actual_hours", "description">>

TASK_FIELDS ==
    [f \in Range(TaskFieldOrder) |->
        [type     |-> IF f \in {"expected_hours", "actual_hours"} THEN "float" ELSE "str",
         required |-> f \notin {"actual_hours", "description"}]]

INTERNAL_FIELDS == {"created_at", "updated_at"}

\* The characters of the strings the model sends as dates (TLC cannot take a
\* string apart, so the text of each is spelled out here).
Chars(s) ==
    CASE s = "2023-01-01" -> <<"2","0","2","3","-","0","1","-","0","1">>
      [] s = "2024-02-29" -> <<"2","0","2","4","-","0","2","-","2","9">>
      [] s = "2023-02-29" -> <<"2","0","2","3","-","0","2","-","2","9">>
      [] s = "2023-1-3"   -> <<"2","0","2","3","-","1","-","3">>
      [] s = "01-03-2023" -> <<"0","1","-","0","3","-","2","0","2","3">>
      [] s = "2023-01-01x" -> <<"2","0","2","3","-","0","1","-","0","1","x">>
      [] s = "2023-13-01" -> <<"2","0","2","3","-","1","3","-","0","1">>
      [] s = "0000-01-01" -> <<"0","0","0","0","-","0","1","-","0","1">>
      [] s = ""           -> <<>>
      [] OTHER            -> <<"?">>

DigitVal(c) ==
    CASE c = "0" -> 0 [] c = "1" -> 1 [] c = "2" -> 2 [] c = "3" -> 3 [] c = "4" -> 4
      [] c = "5" -> 5 [] c = "6" -> 6 [] c = "7" -> 7 [] c = "8" -> 8 [] c = "9" -> 9
      [] OTHER -> -1

IsDigit(c) == DigitVal(c) >= 0

\* cs[i] or a character no pattern matches when i is past the end
At(cs, i) == IF i \in DOMAIN cs THEN cs[i] ELSE "$"

\* _strptime's regex for %m at position i, followed by the literal '-':
\* 1[0-2]|0[1-9]|[1-9], alternatives tried in order.  0 when none matches,
\* else the number of characters taken.
MonthLen(cs, i) ==
    LET a == At(cs, i)
        b == At(cs, i + 1)
    IN IF a = "1" /\ b \in {"0", "1", "2"} /\ At(cs, i + 2) = "-" THEN 2
       ELSE IF a = "0" /\ IsDigit(b) /\ b # "0" /\ At(cs, i + 2) = "-" THEN 2
       ELSE IF IsDigit(a) /\ a # "0" /\ b = "-" THEN 1
       ELSE 0

\* _strptime's regex for %d at position i: 3[0-1]|[1-2]\d|0[1-9]|[1-9]| [1-9]
DayLen(cs, i) ==
    LET a == At(cs, i)
        b == At(cs, i + 1)
    IN IF a = "3" /\ b \in {"0", "1"} THEN 2
       ELSE IF a \in {"1", "2"} /\ IsDigit(b) THEN 2
       ELSE IF a = "0" /\ IsDigit(b) /\ b # "0" THEN 2
       ELSE IF IsDigit(a) /\ a # "0" THEN 1
       ELSE IF a = " " /\ IsDigit(b) /\ b # "0" THEN 2
       ELSE 0

Num(cs, i, n) ==
    IF n = 1 THEN DigitVal(cs[i])
    ELSE IF At(cs, i) = " " THEN DigitVal(cs[i + 1])
    ELSE 10 * DigitVal(cs[i]) + DigitVal(cs[i + 1])

IsLeap(y) == (y % 4 = 0 /\ y % 100 # 0) \/ y % 400 = 0

DaysInMonth(y, m) ==
    IF m = 2 THEN (IF IsLeap(y) THEN 29 ELSE 28)
    ELSE IF m \in {4, 6, 9, 11} THEN 30 ELSE 31

\* datetime.datetime.strptime(s, '%Y-%m-%d') returns (TRUE) or raises
\* ValueError (FALSE): the regex must match from the start, nothing may be
\* left over, and the date must be one datetime() accepts.
StrptimeOk(s) ==
    LET cs == Chars(s)
        ml == MonthLen(cs, 6)
        dl == DayLen(cs, 7 + ml)
        y  == 1000 * DigitVal(cs[1]) + 100 * DigitVal(cs[2]) + 10 * DigitVal(cs[3]) + DigitVal(cs[4])
    IN /\ \A i \in 1..4 : IsDigit(At(cs, i))
       /\ At(cs, 5) = "-"
       /\ ml > 0
       /\ dl > 0
       /\ Len(cs) = 6 + ml + dl
       /\ y >= 1
       /\ Num(cs, 7 + ml, dl) <= DaysInMonth(y, Num(cs, 6, ml))

RequiredMsg(field) == "'" \o field \o "' is a required field."

TypeMsg(field, expected, got) ==
    "'" \o field \o "' must be of type " \o expected \o ", but got " \o got \o "."

DateMsg(field) == "'" \o field \o "' must be in YYYY-MM-DD format."

\* `field in data` for the JSON values a body can be; "TypeError" when the
\* value has no `in`.
Contains(data, field) ==
    CASE data.t = "dict" -> field \in DOMAIN data.d
      [] data.t = "list" -> PyStr(field) \in Range(data.items)
      [] data.t = "str"  -> data.s = field   \* substring test; the model's strings are short
      [] OTHER           -> FALSE

HasIn(data) == data.t \in {"dict", "list", "str"}

\* isinstance(value, expected_type)
IsInstance(value, type) == value.t = type

\* The message validate_task_data leaves in errors[field] for a dict,
\* "" when it leaves none.
FieldError(d, field, is_create) ==
    LET specs == TASK_FIELDS[field]
    IN IF is_create /\ specs.required /\ field \notin DOMAIN d
       THEN (IF field # "task_id" THEN RequiredMsg(field) ELSE "")
       ELSE IF field \notin DOMAIN d THEN ""
       ELSE IF field = "date" /\ specs.type = "str" /\ d[field].t = "str" /\ ~StrptimeOk(d[field].s)
            THEN DateMsg(field)
       ELSE IF ~IsInstance(d[field], specs.type)
            THEN TypeMsg(field, specs.type, d[field].t)
       ELSE ""

\* validate_task_data(data, is_create): [raised, errors].  raised is the
\* exception that escapes, "" when none: strptime on a non-string raises
\* TypeError, which the `except ValueError` does not catch; so do `in` on a
\* number and data[field] on a list that holds the field's name.
validate_task_data(data, is_create) ==
    IF ~HasIn(data) THEN [raised |-> "TypeError", errors |-> EmptyDict]
    ELSE IF data.t # "dict"
    THEN IF \E f \in Range(TaskFieldOrder) : Contains(data, f)
         THEN [raised |-> "TypeError", errors |-> EmptyDict]
         ELSE [raised |-> "",
               errors |-> IF is_create
                          THEN [f \in {g \in Range(TaskFieldOrder) :
                                         TASK_FIELDS[g].required /\ g # "task_id"} |-> RequiredMsg(f)]
                          ELSE EmptyDict]
    ELSE IF "date" \in DOMAIN data.d /\ data.d["date"].t # "str"
    THEN [raised |-> "TypeError", errors |-> EmptyDict]
    ELSE [raised |-> "",
          errors |-> [f \in {g \in Range(TaskFieldOrder) : FieldError(data.d, g, is_create) # ""}
                        |-> FieldError(data.d, f, is_create)]]

----------------------------------------------------------------------------
(* Bounds of the model *)

\* uuid4() draws per run (every create that passes validation draws one)
MaxUuid == 2

\* the last reading of the clock, in the store's datetime resolution
MaxClock == 1

----------------------------------------------------------------------------
(* src/app/services/mongo_service.py: the store.  A collection is the    *)
(* sequence of its documents in insertion order; the store is taken to   *)
(* be reachable, so no operation raises.                                 *)

\* collection.insert_one(doc): the driver adds the _id
insert_one(coll, doc, oid) == Append(coll, Put(doc, "_id", oid))

\* the index of the first document with doc[key] = value, 0 when none
FirstMatch(coll, key, value) ==
    LET hits == {i \in DOMAIN coll : key \in DOMAIN coll[i] /\ coll[i][key] = value}
    IN IF hits = {} THEN 0 ELSE CHOOSE i \in hits : \A j \in hits : i <= j
\* get_task with find_one() and no filter
MongoGetTaskAny(coll, task_id) == IF coll = <<>> THEN PyNone ELSE PyDict(coll[1])

\* MongoService.get_task: collection.find_one({"task_id": task_id})
MongoGetTask(coll, task_id) ==
    LET i == FirstMatch(coll, "task_id", PyStr(task_id))
    IN IF i = 0 THEN PyNone ELSE PyDict(coll[i])

\* update_task reporting modified_count 0 for an update it has applied
MongoUpdateTaskCountZero(coll, task_id, update_data) ==
    LET i == FirstMatch(coll, "task_id", PyStr(task_id))
    IN IF i = 0 THEN [coll |-> coll, modified_count |-> 0]
       ELSE [coll |-> [coll EXCEPT ![i] = Merge(coll[i], update_data)], modified_count |-> 0]

\* update_task replacing the document by the update instead of merging it
MongoUpdateTaskReplace(coll, task_id, update_data) ==
    LET i == FirstMatch(coll, "task_id", PyStr(task_id))
        new == Put(Put(update_data, "task_id", PyStr(task_id)), "_id", coll[i]["_id"])
    IN IF i = 0 THEN [coll |-> coll, modified_count |-> 0]
       ELSE [coll |-> [coll EXCEPT ![i] = new],
             modified_count |-> IF new # coll[i] THEN 1 ELSE 0]

\* MongoService.update_task: update_one({"task_id": task_id}, {"$set": data});
\* modified_count counts the documents the update actually changed.
MongoUpdateTask(coll, task_id, update_data) ==
    LET i == FirstMatch(coll, "task_id", PyStr(task_id))
        new == Merge(coll[i], update_data)
    IN IF i = 0 THEN [coll |-> coll, modified_count |-> 0]
       ELSE [coll |-> [coll EXCEPT ![i] = new],
             modified_count |-> IF new # coll[i] THEN 1 ELSE 0]

RECURSIVE FilterIn(_, _, _)
FilterIn(coll, key, values) ==
    IF coll = <<>> THEN <<>>
    ELSE LET rest == FilterIn(Tail(coll), key, values)
         IN IF key \in DOMAIN Head(coll) /\ Head(coll)[key] \in values
            THEN <<Head(coll)>> \o rest ELSE rest
\* get_all_tasks with the userids filter left out of the query
MongoGetAllTasksUnfiltered(coll, userids) == coll

\* MongoService.get_all_tasks(userids): find({"userid": {"$in": userids}})
MongoGetAllTasks(coll, userids) == FilterIn(coll, "userid", {PyStr(u) : u \in userids})

\* MongoService.get_categories: find_one() on the categories collection
MongoGetCategories(coll) == IF coll = <<>> THEN PyNone ELSE PyDict(coll[1])

\* update_categories inserting a new document at every call
MongoUpdateCategoriesInsert(coll, doc) ==
    [coll |-> Append(coll, Put(doc, "_id", ObjectId(Len(coll)))), matched_count |-> 0,
     modified_count |-> 0, upserted_id |-> ObjectId(Len(coll))]

\* MongoService.update_categories: replace_one({}, doc, upsert=True) replaces
\* the first document, keeping its _id, or inserts one.
MongoUpdateCategories(coll, doc) ==
    IF coll = <<>>
    THEN [coll |-> <<Put(doc, "_id", ObjectId(0))>>, matched_count |-> 0,
          modified_count |-> 0, upserted_id |-> ObjectId(0)]
    ELSE LET new == Put(doc, "_id", coll[1]["_id"])
         IN [coll |-> [coll EXCEPT ![1] = new], matched_count |-> 1,
             modified_count |-> IF new # coll[1] THEN 1 ELSE 0, upserted_id |-> PyNone]

----------------------------------------------------------------------------
(* Responses *)

\* jsonify of a stored value: a datetime goes out as an HTTP date string;
\* str(ObjectId) is its hex text.
JsonValue(v) ==
    CASE v.t = "datetime" -> PyStr("http-date:" \o ToString(v.n))
      [] v.t = "ObjectId" -> PyStr("oid:" \o ToString(v.n))
      [] OTHER            -> v

JsonDoc(doc) == [k \in DOMAIN doc |-> JsonValue(doc[k])]

PyStrList(xs) == PyList([i \in DOMAIN xs |-> PyStr(xs[i])])

\* auth_info = {"userid": userid, "groups": groups}
AuthInfo(auth_header) ==
    LET a == get_auth_info_from_request(auth_header)
    IN ("userid" :> PyStr(a.userid)) @@ ("groups" :> PyStrList(a.groups))

ErrorBody(message) == ("status" :> PyStr("error")) @@ ("message" :> PyStr(message))

\* The record of a call: what was asked and what came back.  exc names the
\* exception that left the view unhandled ("" when none): Flask answers it
\* with its own 500 page, which is no JSON object of the view's.
Call(op, auth_header, url_id, data, status, body, exc) ==
    [op |-> op, header |-> auth_header, url_id |-> url_id, data |-> data,
     status |-> status, body |-> body, exc |-> exc]

Unhandled(op, auth_header, url_id, data, exc) ==
    Call(op, auth_header, url_id, data, 500, EmptyDict, exc)

NoFresh == [task_id |-> "", data |-> PyNone]

NoCall == Call("", NoHeader, "", PyNone, 0, EmptyDict, "")

----------------------------------------------------------------------------
(* src/app/api/tasks.py: the views *)

\* uuid4() returning the same value at every draw
UuidRepeated(n) == "id1"

\* uuid4() as its n-th draw: a fresh value each time
Uuid(n) == "id" \o ToString(n)

\* the second pass without its exemption of created_at and updated_at
OffendingNoInternal(d) ==
    {k \in DOMAIN d : k \notin DOMAIN TASK_FIELDS /\ d[k].t # "str"}

\* The keys the second pass of create_task / modify_task rejects.
Offending(d) ==
    {k \in DOMAIN d : k \notin DOMAIN TASK_FIELDS /\ k \notin INTERNAL_FIELDS /\ d[k].t # "str"}

ArbitraryMsg(key) == "Arbitrary attribute '" \o key \o "' must be a string."

\* get_userids_in_groups(groups): tasks.py imports it from app.auth, which
\* does not define it.  It is the union of the member lists of the named
\* groups, read from the membership list.
get_userids_in_groups(groups) ==
    IF authz_data.kind # "list" THEN {}
    ELSE UNION {Range(authz_data.items[i].userids) :
                  i \in {j \in DOMAIN authz_data.items :
                           authz_data.items[j].group_name \in Range(groups)}}

\* list_users()
ListUsers(auth_header) ==
    /\ last' = Call("list_users", auth_header, "", PyNone, 200,
                    Merge(AuthInfo(auth_header),
                          "users" :> PyStrList(<<"dana", "michelle">>)), "")
    /\ UNCHANGED <<auth_data, authz_data, token_to_userid_map, userid_to_groups_map, pending,
                   tasks, categories, clock, uuid_count, routed, fresh>>

\* create_task(): the whole view.  Between two readings of the clock time
\* may or may not pass.
CreateTask(auth_header, data) ==
    LET auth_info == AuthInfo(auth_header)
        v == validate_task_data(data, TRUE)
        Answer(status, body, exc) ==
            last' = Call("create_task", auth_header, "", data, status, body, exc)
    IN /\ UNCHANGED <<auth_data, authz_data, token_to_userid_map, userid_to_groups_map, pending,
                      categories, routed>>
       /\ IF ~Truthy(data)
          THEN /\ Answer(400, Merge(auth_info, ErrorBody("Request must be JSON")), "")
               /\ UNCHANGED <<tasks, clock, uuid_count, fresh>>
          ELSE IF v.raised # ""
          THEN /\ Answer(500, EmptyDict, v.raised)
               /\ UNCHANGED <<tasks, clock, uuid_count, fresh>>
          ELSE IF v.errors # EmptyDict
          THEN /\ Answer(400, Merge(auth_info,
                                    Merge(ErrorBody("Validation failed"),
                                          "errors" :> PyDict([f \in DOMAIN v.errors |-> PyStr(v.errors[f])]))), "")
               /\ UNCHANGED <<tasks, clock, uuid_count, fresh>>
          ELSE /\ uuid_count < MaxUuid
               /\ \E created_at \in clock..MaxClock, updated_at \in clock..MaxClock :
                    /\ created_at <= clock + 1
                    /\ created_at <= updated_at
                    /\ updated_at <= created_at + 1
                    /\ LET task_id == Uuid(uuid_count + 1)
                           doc == Put(Put(Put(data.d, "task_id", PyStr(task_id)),
                                          "created_at", PyDatetime(created_at)),
                                      "updated_at", PyDatetime(updated_at))
                       IN /\ uuid_count' = uuid_count + 1
                          /\ clock' = updated_at
                          /\ IF Offending(doc) # {}
                             THEN /\ \E key \in Offending(doc) :
                                        Answer(400, Merge(auth_info, ErrorBody(ArbitraryMsg(key))), "")
                                  /\ UNCHANGED <<tasks, fresh>>
                             ELSE /\ tasks' = insert_one(tasks, doc, ObjectId(uuid_count + 1))
                                  /\ fresh' = [task_id |-> task_id, data |-> data]
                                  /\ Answer(201, Merge(auth_info,
                                                       ("status" :> PyStr("success"))
                                                       @@ ("message" :> PyStr("Task created successfully"))
                                                       @@ ("task_id" :> PyStr(task_id))), "")

\* modify_task(task_id): the whole view.
ModifyTask(auth_header, task_id, data) ==
    LET auth_info == AuthInfo(auth_header)
        \* if 'task_id' in data: del data['task_id']
        del_raises == data.t \notin {"dict", "list", "str"}
                      \/ (data.t # "dict" /\ Contains(data, "task_id"))
        data1 == IF data.t = "dict" THEN PyDict(Del(data.d, "task_id")) ELSE data
        v == validate_task_data(data1, FALSE)
        Answer(status, body, exc) ==
            last' = Call("modify_task", auth_header, task_id, data, status, body, exc)
    IN /\ UNCHANGED <<auth_data, authz_data, token_to_userid_map, userid_to_groups_map, pending,
                      categories, uuid_count, routed>>
       /\ IF ~Truthy(data)
          THEN /\ Answer(400, Merge(auth_info, ErrorBody("Request must be JSON")), "")
               /\ UNCHANGED <<tasks, clock, fresh>>
          ELSE IF del_raises \/ v.raised # ""
          THEN /\ Answer(500, EmptyDict, "TypeError")
               /\ UNCHANGED <<tasks, clock, fresh>>
          ELSE IF v.errors # EmptyDict
          THEN /\ Answer(400, Merge(auth_info,
                                    Merge(ErrorBody("Validation failed"),
                                          "errors" :> PyDict([f \in DOMAIN v.errors |-> PyStr(v.errors[f])]))), "")
               /\ UNCHANGED <<tasks, clock, fresh>>
          ELSE IF data1.t # "dict"
          THEN \* data['updated_at'] = ... on a list or a string
               /\ Answer(500, EmptyDict, "TypeError")
               /\ UNCHANGED <<tasks, clock, fresh>>
          ELSE \E updated_at \in clock..MaxClock :
                 /\ updated_at <= clock + 1
                 /\ clock' = updated_at
                 /\ LET data2 == Put(data1.d, "updated_at", PyDatetime(updated_at))
                        r == MongoUpdateTask(tasks, task_id, data2)
                    IN IF Offending(data2) # {}
                       THEN /\ \E key \in Offending(data2) :
                                  Answer(400, Merge(auth_info, ErrorBody(ArbitraryMsg(key))), "")
                            /\ UNCHANGED <<tasks, fresh>>
                       ELSE /\ tasks' = r.coll
                            /\ fresh' = IF r.modified_count = 1 /\ task_id = fresh.task_id
                                        THEN NoFresh ELSE fresh
                            /\ IF r.modified_count = 0
                               THEN Answer(404, Merge(auth_info,
                                        ErrorBody("Task with task_id '" \o task_id
                                                  \o "' not found or no changes made.")), "")
                               ELSE Answer(200, Merge(auth_info,
                                        ("status" :> PyStr("success"))
                                        @@ ("message" :> PyStr("Task updated successfully"))
                                        @@ ("task_id" :> PyStr(task_id))), "")

\* get_task answering "not found" for a task whose owner shares no group
\* with the caller
GetTaskFiltered(auth_header, task_id) ==
    LET auth_info == AuthInfo(auth_header)
        a == get_auth_info_from_request(auth_header)
        task == MongoGetTask(tasks, task_id)
        visible == Truthy(task) /\ task.d["userid"].s \in get_userids_in_groups(a.groups) \cup {a.userid}
    IN /\ last' = IF visible
                  THEN Call("get_task", auth_header, task_id, PyNone, 200,
                            Merge(auth_info, ("status" :> PyStr("success"))
                                             @@ ("task" :> PyDict(JsonDoc(task.d)))), "")
                  ELSE Call("get_task", auth_header, task_id, PyNone, 404,
                            Merge(auth_info, ErrorBody("Task not found")), "")
       /\ UNCHANGED <<auth_data, authz_data, token_to_userid_map, userid_to_groups_map, pending,
                      tasks, categories, clock, uuid_count, routed, fresh>>

\* get_task(task_id)
GetTask(auth_header, task_id) ==
    LET auth_info == AuthInfo(auth_header)
        task == MongoGetTask(tasks, task_id)
    IN /\ last' = IF Truthy(task)
                  THEN Call("get_task", auth_header, task_id, PyNone, 200,
                            Merge(auth_info, ("status" :> PyStr("success"))
                                             @@ ("task" :> PyDict(JsonDoc(task.d)))), "")
                  ELSE Call("get_task", auth_header, task_id, PyNone, 404,
                            Merge(auth_info, ErrorBody("Task not found")), "")
       /\ UNCHANGED <<auth_data, authz_data, token_to_userid_map, userid_to_groups_map, pending,
                      tasks, categories, clock, uuid_count, routed, fresh>>

\* get_all_tasks()
GetAllTasks(auth_header) ==
    LET a == get_auth_info_from_request(auth_header)
        userids_in_my_groups == get_userids_in_groups(a.groups)
        found == MongoGetAllTasks(tasks, userids_in_my_groups)
    IN /\ last' = Call("get_all_tasks", auth_header, "", PyNone, 200,
                       Merge(AuthInfo(auth_header),
                             ("status" :> PyStr("success"))
                             @@ ("tasks" :> PyList([i \in DOMAIN found |-> PyDict(JsonDoc(found[i]))]))), "")
       /\ UNCHANGED <<auth_data, authz_data, token_to_userid_map, userid_to_groups_map, pending,
                      tasks, categories, clock, uuid_count, routed, fresh>>

----------------------------------------------------------------------------
(* src/app/api/categories.py: the views *)

\* get_categories()
GetCategories(auth_header) ==
    LET auth_info == AuthInfo(auth_header)
        categories_doc == MongoGetCategories(categories)
    IN /\ last' = IF Truthy(categories_doc)
                  THEN Call("get_categories", auth_header, "", PyNone, 200,
                            Merge(auth_info, JsonDoc(Del(categories_doc.d, "_id"))), "")
                  ELSE Call("get_categories", auth_header, "", PyNone, 200,
                            Merge(auth_info, "categories" :> PyList(<<>>)), "")
       /\ UNCHANGED <<auth_data, authz_data, token_to_userid_map, userid_to_groups_map, pending,
                      tasks, categories, clock, uuid_count, routed, fresh>>

\* update_categories()
UpdateCategories(auth_header, data) ==
    LET auth_info == AuthInfo(auth_header)
        Answer(status, body, exc) ==
            last' = Call("update_categories", auth_header, "", data, status, body, exc)
        r == MongoUpdateCategories(categories, data.d)
    IN /\ UNCHANGED <<auth_data, authz_data, token_to_userid_map, userid_to_groups_map, pending,
                      tasks, clock, uuid_count, routed, fresh>>
       /\ IF ~Truthy(data)
          THEN /\ Answer(400, Merge(auth_info, ErrorBody("Request must be JSON")), "")
               /\ UNCHANGED categories
          ELSE IF ~HasIn(data)
          THEN /\ Answer(500, EmptyDict, "TypeError")
               /\ UNCHANGED categories
          ELSE IF ~Contains(data, "categories")
          THEN /\ Answer(400, Merge(auth_info,
                            ErrorBody("Request body must contain a 'categories' key.")), "")
               /\ UNCHANGED categories
          ELSE IF data.t # "dict"
          THEN \* data['categories'] on a list or a string
               /\ Answer(500, EmptyDict, "TypeError")
               /\ UNCHANGED categories
          ELSE IF data.d["categories"].t # "list"
          THEN /\ Answer(400, Merge(auth_info,
                            ErrorBody("The 'categories' value must be a list.")), "")
               /\ UNCHANGED categories
          ELSE IF \E x \in Range(data.d["categories"].items) : x.t # "str"
          THEN /\ Answer(400, Merge(auth_info,
                            ErrorBody("All items in the 'categories' list must be strings.")), "")
               /\ UNCHANGED categories
          ELSE /\ categories' = r.coll
               /\ Answer(200, Merge(auth_info,
                            ("status" :> PyStr("success"))
                            @@ ("message" :> PyStr("Categories updated successfully."))
                            @@ ("matched_count" :> PyInt(ToString(r.matched_count)))
                            @@ ("modified_count" :> PyInt(ToString(r.modified_count)))
                            @@ ("upserted_id" :> JsonValue(r.upserted_id))), "")

----------------------------------------------------------------------------
(* Requests served concurrently: a view runs up to its store call, and the
   store call takes effect later, other requests in between. *)

\* how many requests are followed through their store operation
MaxPending == 2

\* The body passes every check of update_categories (categories.py 41-57).
UpdateCategoriesAccepts(data) ==
    /\ data.t = "dict"
    /\ "categories" \in DOMAIN data.d
    /\ data.d["categories"].t = "list"
    /\ \A x \in Range(data.d["categories"].items) : x.t = "str"

\* update_categories up to the first half of replace_one({}, doc,
\* upsert=True): the store looks for a document matching {}.  Without a
\* unique index the store does not serialise this with the insert that
\* follows when nothing matched.
UpdateCategoriesBegin(auth_header, data) ==
    /\ Len(pending) < MaxPending
    /\ UpdateCategoriesAccepts(data)
    /\ pending' = Append(pending, [op |-> "update_categories", header |-> auth_header,
                                   data |-> data, matched |-> categories # <<>>,
                                   done |-> FALSE])
    /\ UNCHANGED <<auth_data, authz_data, token_to_userid_map, userid_to_groups_map,
                   tasks, categories, clock, uuid_count, routed, fresh, last>>

\* The second half of replace_one and the rest of the view: the document
\* found is replaced, keeping its _id; when none was found one is inserted.
UpdateCategoriesWrite(i) ==
    LET p == pending[i]
        auth_info == AuthInfo(p.header)
        r == IF p.matched THEN MongoUpdateCategories(categories, p.data.d)
             ELSE [coll |-> Append(categories, Put(p.data.d, "_id", ObjectId(Len(categories)))),
                   matched_count |-> 0, modified_count |-> 0,
                   upserted_id |-> ObjectId(Len(categories))]
    IN /\ p.op = "update_categories"
       /\ ~p.done
       /\ categories' = r.coll
       /\ pending' = [pending EXCEPT ![i].done = TRUE]
       /\ last' = Call("update_categories", p.header, "", p.data, 200,
                       Merge(auth_info,
                             ("status" :> PyStr("success"))
                             @@ ("message" :> PyStr("Categories updated successfully."))
                             @@ ("matched_count" :> PyInt(ToString(r.matched_count)))
                             @@ ("modified_count" :> PyInt(ToString(r.modified_count)))
                             @@ ("upserted_id" :> JsonValue(r.upserted_id))), "")
       /\ UNCHANGED <<auth_data, authz_data, token_to_userid_map, userid_to_groups_map,
                      tasks, clock, uuid_count, routed, fresh>>

\* The body passes every check of modify_task before the store call
\* (tasks.py 92-106), updated_at being the datetime the view has put in it.
ModifyTaskAccepts(data, updated_at) ==
    /\ Truthy(data)
    /\ data.t = "dict"
    /\ LET data1 == PyDict(Del(data.d, "task_id"))
           v == validate_task_data(data1, FALSE)
       IN /\ v.raised = ""
          /\ v.errors = EmptyDict
          /\ Offending(Put(data1.d, "updated_at", PyDatetime(updated_at))) = {}

\* modify_task up to its store call: the body is checked, task_id is taken
\* out of it, updated_at is read from the clock and put in it.
ModifyTaskBegin(auth_header, task_id, data) ==
    /\ Len(pending) < MaxPending
    /\ \E updated_at \in clock..MaxClock :
          /\ updated_at <= clock + 1
          /\ ModifyTaskAccepts(data, updated_at)
          /\ clock' = updated_at
          /\ pending' = Append(pending,
                 [op |-> "modify_task", header |-> auth_header, url_id |-> task_id,
                  data |-> data,
                  set |-> Put(Del(data.d, "task_id"), "updated_at", PyDatetime(updated_at)),
                  done |-> FALSE, seq |-> 0, found |-> FALSE, before |-> EmptyDict])
    /\ UNCHANGED <<auth_data, authz_data, token_to_userid_map, userid_to_groups_map,
                   tasks, categories, uuid_count, routed, fresh, last>>

\* The store call of a modify request and the rest of the view: update_one
\* is applied to the collection as it is now, and the view answers by its
\* modified_count.  The entry keeps, as history, its place in the order of
\* the writes and the document the write found.
ModifyTaskWrite(i) ==
    LET p == pending[i]
        auth_info == AuthInfo(p.header)
        r == MongoUpdateTask(tasks, p.url_id, p.set)
        k == FirstMatch(tasks, "task_id", PyStr(p.url_id))
        written == Cardinality({j \in DOMAIN pending : pending[j].done})
    IN /\ p.op = "modify_task"
       /\ ~p.done
       /\ tasks' = r.coll
       /\ fresh' = IF r.modified_count = 1 /\ p.url_id = fresh.task_id THEN NoFresh ELSE fresh
       /\ pending' = [pending EXCEPT ![i] =
                         [p EXCEPT !.done = TRUE, !.seq = written + 1, !.found = (k # 0),
                                   !.before = IF k # 0 THEN tasks[k] ELSE EmptyDict]]
       /\ last' = IF r.modified_count = 0
                  THEN Call("modify_task", p.header, p.url_id, p.data, 404,
                            Merge(auth_info,
                                  ErrorBody("Task with task_id '" \o p.url_id
                                            \o "' not found or no changes made.")), "")
                  ELSE Call("modify_task", p.header, p.url_id, p.data, 200,
                            Merge(auth_info,
                                  ("status" :> PyStr("success"))
                                  @@ ("message" :> PyStr("Task updated successfully"))
                                  @@ ("task_id" :> PyStr(p.url_id))), "")
       /\ UNCHANGED <<auth_data, authz_data, token_to_userid_map, userid_to_groups_map,
                      categories, clock, uuid_count, routed>>

----------------------------------------------------------------------------
(* src/app/__init__.py: the URL map *)

\* A rule is [methods, rule, endpoint]; a path is the sequence of its
\* segments, and "<task_id>" stands for the converter <string:task_id>.
tasks_bp ==
    {[methods |-> {"GET"},  rule |-> <<"users">>,              endpoint |-> "list_users"],
     [methods |-> {"POST"}, rule |-> <<"tasks">>,              endpoint |-> "create_task"],
     [methods |-> {"PUT"},  rule |-> <<"tasks", "<task_id>">>, endpoint |-> "modify_task"],
     [methods |-> {"GET"},  rule |-> <<"tasks", "<task_id>">>, endpoint |-> "get_task"],
     [methods |-> {"GET"},  rule |-> <<"tasks">>,              endpoint |-> "get_all_tasks"]}

categories_bp ==
    {[methods |-> {"GET"}, rule |-> <<"categories">>, endpoint |-> "get_categories"],
     [methods |-> {"PUT"}, rule |-> <<"categories">>, endpoint |-> "update_categories"]}

\* app.register_blueprint(bp, url_prefix=prefix)
register_blueprint(bp, url_prefix) ==
    {[methods |-> r.methods, rule |-> url_prefix \o r.rule, endpoint |-> r.endpoint] : r \in bp}

\* create_app(): the rules of the application it returns
create_app ==
    register_blueprint(tasks_bp, <<"api", "v1">>)
    \cup {[methods |-> {"GET"}, rule |-> <<>>, endpoint |-> "index"]}

RuleMatches(rule, path) ==
    /\ Len(rule) = Len(path)
    /\ \A i \in DOMAIN rule : rule[i] = path[i] \/ (rule[i] = "<task_id>" /\ path[i] # "")

\* The dispatch of one request: the view reached, or the framework's own
\* 404 / 405 answer.
Dispatch(method, path) ==
    LET on_path == {r \in create_app : RuleMatches(r.rule, path)}
        hits == {r \in on_path : method \in r.methods}
    IN IF on_path = {} THEN [status |-> 404, endpoint |-> ""]
       ELSE IF hits = {} THEN [status |-> 405, endpoint |-> ""]
       ELSE [status |-> 0, endpoint |-> (CHOOSE r \in hits : TRUE).endpoint]

Route(method, path) ==
    /\ routed' = [method |-> method, path |-> path,
                  status |-> Dispatch(method, path).status,
                  endpoint |-> Dispatch(method, path).endpoint]
    /\ UNCHANGED <<auth_data, authz_data, token_to_userid_map, userid_to_groups_map, pending,
                   tasks, categories, clock, uuid_count, fresh, last>>

NotRouted == [method |-> "", path |-> <<>>, status |-> 0, endpoint |-> ""]

----------------------------------------------------------------------------
(* Direct calls of the resolvers *)

CallGetUserid(auth_token) ==
    /\ last' = Call("get_userid_from_token", NoHeader, "", auth_token, 0,
                    "result" :> PyStr(get_userid_from_token(auth_token)), "")
    /\ UNCHANGED <<auth_data, authz_data, token_to_userid_map, userid_to_groups_map, pending,
                   tasks, categories, clock, uuid_count, routed, fresh>>

CallGetGroups(userid) ==
    /\ last' = Call("get_groups_from_userid", NoHeader, "", userid, 0,
                    "result" :> PyStrList(get_groups_from_userid(userid)), "")
    /\ UNCHANGED <<auth_data, authz_data, token_to_userid_map, userid_to_groups_map, pending,
                   tasks, categories, clock, uuid_count, routed, fresh>>

CallGetAuthInfo(auth_header) ==
    /\ last' = Call("get_auth_info_from_request", auth_header, "", PyNone, 0,
                    AuthInfo(auth_header), "")
    /\ UNCHANGED <<auth_data, authz_data, token_to_userid_map, userid_to_groups_map, pending,
                   tasks, categories, clock, uuid_count, routed, fresh>>

\* Importing (or reloading) app.auth with the two files as given: the module
\* sets both maps to {} and calls _load_auth_data().  An exception the
\* loader does not catch leaves it, and the import, at that point: the maps
\* assigned before it keep their value, the others stay {}.
LoadAuthData(ad, az) ==
    LET e1 == LoadException(ad, {"auth_token", "userid"})
        e2 == LoadException(az, {"group_name", "userids"})
        Returns(exc) == last' = Call("_load_auth_data", NoHeader, "", PyNone, 0, EmptyDict, exc)
    IN /\ auth_data' = ad
       /\ authz_data' = az
       /\ IF e1 # "" /\ e1 \notin CaughtByLoader
          THEN /\ token_to_userid_map' = EmptyDict
               /\ userid_to_groups_map' = EmptyDict
               /\ Returns(e1)
          ELSE /\ token_to_userid_map' = LoadTokenMap(ad)
               /\ IF e2 # "" /\ e2 \notin CaughtByLoader
                  THEN /\ userid_to_groups_map' = EmptyDict
                       /\ Returns(e2)
                  ELSE /\ userid_to_groups_map' = LoadGroupsMap(az)
                       /\ Returns("")
       /\ UNCHANGED <<tasks, categories, clock, uuid_count, routed, fresh, pending>>

----------------------------------------------------------------------------
(* The inputs the model draws *)

GroupItem(name, userids) == [group_name |-> name, userids |-> userids]

\* tokens t1 and t3 for u1 and u3
CredMain == SrcList(<<AuthItem("t1", "u1"), AuthItem("t3", "u3")>>)

\* a token listed twice, an empty token, an empty userid
CredOdd ==
    SrcList(<<AuthItem("t1", "u1"), AuthItem("t1", "u2"), AuthItem("", "u3"), AuthItem("t3", "")>>)

\* an item without its auth_token
CredNoKey == SrcList(<<AuthItem("t1", "u1"), "userid" :> "u2">>)

AuthSources == {CredMain, CredOdd, CredNoKey, SrcMissing, SrcInvalid}

\* G1 = {u1, u2}, G2 = {u2, u3}
AuthzG == SrcList(<<GroupItem("G1", <<"u1", "u2">>), GroupItem("G2", <<"u2", "u3">>)>>)

\* the same with the group Guests = {guest}
AuthzGuests ==
    SrcList(<<GroupItem("G1", <<"u1", "u2">>), GroupItem("G2", <<"u2", "u3">>),
              GroupItem("Guests", <<"guest">>)>>)

\* a member listed twice, an empty member, a Guests group with other members
AuthzOdd ==
    SrcList(<<GroupItem("G1", <<"u1", "u1", "">>), GroupItem("Guests", <<"u2", "guest">>),
              GroupItem("G1", <<"u3">>)>>)

AuthzSources == {AuthzG, AuthzGuests, AuthzOdd, SrcMissing}

Tokens == {PyNone, PyStr(""), PyStr("t1"), PyStr("t3"), PyStr("T1"), PyStr("zz")}

Userids == {PyNone, PyStr(""), PyStr("u1"), PyStr("u2"), PyStr("u3"), PyStr("guest"), PyStr("zz")}

Headers ==
    {NoHeader, <<"Bearer", "t1">>, <<"Bearer", "t3">>, <<"Bearer", "">>, <<"Bearer", "zz">>,
     <<"Basic", "t1">>, <<"bearer", "t1">>, <<"t1">>, <<"Bearer", "t3", "t1">>}

\* the callers of the views: nobody, u1 and u3
Callers == {NoHeader, <<"Bearer", "t1">>, <<"Bearer", "t3">>}

\* the callers of the writing views
Writers == {NoHeader, <<"Bearer", "t1">>}

Methods == {"GET", "POST", "PUT", "DELETE"}

Paths ==
    {<<>>, <<"api", "v1", "users">>, <<"api", "v1", "tasks">>, <<"api", "v1", "tasks", "id1">>,
     <<"api", "v1", "categories">>, <<"categories">>, <<"tasks">>, <<"api", "v2", "tasks">>}

Owners == {"u1", "u2", "u3", "guest"}

\* a body with every required field
Full(owner) ==
    ("userid" :> PyStr(owner)) @@ ("date" :> PyStr("2023-01-01")) @@ ("task_name" :> PyStr("n"))
    @@ ("category" :> PyStr("c")) @@ ("expected_hours" :> PyFloat("2.5"))

\* Bodies of the create requests of Spec: valid ones, with and without the
\* keys the server assigns and extension keys, and rejected ones.
CreateBodies ==
    {PyDict(Full("u1")),
     PyDict(Put(Full("u1"), "task_id", PyStr("id1"))),
     PyDict(Put(Put(Full("u2"), "created_at", PyStr("x")), "updated_at", PyStr("y"))),
     PyDict(Put(Put(Full("u3"), "extra", PyStr("e")), "description", PyStr("d"))),
     PyDict(Del(Full("u1"), "category")),
     PyDict(EmptyDict)}

RequiredFields == {"userid", "date", "task_name", "category", "expected_hours"}

Restrict(d, keys) == [k \in DOMAIN d \cap keys |-> d[k]]

\* Bodies of the create requests of SpecValidation.
ValidationBodies ==
    {PyDict(Restrict(Full("u1"), S)) : S \in SUBSET RequiredFields}
    \cup {PyDict(Put(Restrict(Full("u1"), S), "task_id", PyStr("id1"))) : S \in SUBSET RequiredFields}
    \cup {PyDict(Put(Restrict(Full("u1"), S), "description", PyInt("7"))) : S \in SUBSET RequiredFields}

\* Bodies of the create requests of SpecList: one valid body per owner.
OwnerBodies == {PyDict(Full(o)) : o \in Owners}

ModifyBodies ==
    {PyDict("description" :> PyStr("d2")),
     PyDict(("task_id" :> PyStr("zz")) @@ ("userid" :> PyStr("u3"))),
     PyDict(EmptyDict)}

UrlTaskIds == {Uuid(1), Uuid(2), "non-existent-task-id"}

CategoryBodies ==
    {PyDict("categories" :> PyStrList(<<"a", "b">>)),
     PyDict("categories" :> PyStrList(<<"c">>)),
     PyDict("categories" :> PyStrList(<<>>)),
     PyDict(("categories" :> PyStrList(<<"a">>)) @@ ("userid" :> PyStr("dana"))),
     PyDict(("categories" :> PyStrList(<<"a">>)) @@ ("groups" :> PyStrList(<<"Administrators">>))),
     PyDict("cats" :> PyStrList(<<"a", "b">>)),
     PyDict("categories" :> PyStr("just a string")),
     PyDict("categories" :> PyList(<<PyStr("ok"), PyInt("123")>>)),
     PyDict(EmptyDict),
     PyList(<<PyStr("categories")>>),
     PyInt("5"),
     PyNone}

----------------------------------------------------------------------------
(* Specifications *)

\* The state once the modules are imported: _load_auth_data() has run on the
\* two files, the collections are as the test fixtures leave them.
Loaded(ad, az) ==
    /\ auth_data = ad
    /\ authz_data = az
    /\ token_to_userid_map = LoadTokenMap(ad)
    /\ userid_to_groups_map = LoadGroupsMap(az)
    /\ tasks = <<>>
    /\ categories = <<>>
    /\ clock = 0
    /\ uuid_count = 0
    /\ routed = NotRouted
    /\ fresh = NoFresh
    /\ pending = <<>>
    /\ last = NoCall

\* Create, modify and get, called by nobody and by u1.
Init == Loaded(CredMain, AuthzG)

Next ==
    \/ \E h \in Writers, d \in CreateBodies : CreateTask(h, d)
    \/ \E h \in Writers, id \in UrlTaskIds, d \in ModifyBodies : ModifyTask(h, id, d)
    \/ \E h \in Writers, id \in UrlTaskIds : GetTask(h, id)

Spec == Init /\ [][Next]_vars

\* Listing: tasks of every owner, listed by nobody, u1 and u3 under each
\* membership list.
InitList == \E az \in {AuthzG, AuthzGuests, AuthzOdd} : Loaded(CredMain, az)

NextList ==
    \/ \E d \in OwnerBodies : CreateTask(NoHeader, d)
    \/ \E h \in Callers : GetAllTasks(h)
    \/ \E h \in Callers : ListUsers(h)

SpecList == InitList /\ [][NextList]_vars

\* Validation: create requests with every subset of the required fields,
\* with and without a task_id.
InitValidation == Loaded(CredMain, AuthzG)

NextValidation ==
    \/ \E d \in ValidationBodies : CreateTask(NoHeader, d)

SpecValidation == InitValidation /\ [][NextValidation]_vars

\* Start-up and dispatch: every pair of source files, the resolvers called
\* directly, and the URL map.
InitAuth == \E ad \in AuthSources, az \in AuthzSources : Loaded(ad, az)

NextAuth ==
    \/ \E tok \in Tokens : CallGetUserid(tok)
    \/ \E u \in Userids : CallGetGroups(u)
    \/ \E h \in Headers : CallGetAuthInfo(h)
    \/ \E m \in Methods, p \in Paths : Route(m, p)

SpecAuth == InitAuth /\ [][NextAuth]_vars

\* The categories views.
InitCategories == \E az \in {AuthzG, AuthzGuests} : Loaded(CredMain, az)

NextCategories ==
    \/ \E h \in Callers : GetCategories(h)
    \/ \E h \in Callers, d \in CategoryBodies : UpdateCategories(h, d)

SpecCategories == InitCategories /\ [][NextCategories]_vars

\* Field validation: requests whose body gives one schema field a value of
\* each JSON type, or gives date each of the date strings.
FieldValues ==
    {PyStr("s"), PyFloat("2.5"), PyInt("3"), PyBool("true"), PyNone, PyList(<<>>)}

DateStrings ==
    {"2023-01-01", "2024-02-29", "2023-02-29", "2023-1-3", "01-03-2023",
     "2023-01-01x", "2023-13-01", "0000-01-01", ""}

TypedFields == {"task_id", "userid", "date", "expected_hours", "actual_hours", "description"}

FieldCreateBodies ==
    {PyDict(Put(Full("u1"), f, v)) : f \in TypedFields, v \in FieldValues}
    \cup {PyDict(Put(Full("u1"), "date", PyStr(s))) : s \in DateStrings}

ModifiedFields == {"task_id", "date", "expected_hours", "description"}

FieldModifyBodies ==
    {PyDict(f :> v) : f \in ModifiedFields, v \in FieldValues}
    \cup {PyDict("date" :> PyStr(s)) : s \in DateStrings}

\* Create requests with those bodies.
InitFields == Loaded(CredMain, AuthzG)

NextFields ==
    \/ \E d \in FieldCreateBodies : CreateTask(NoHeader, d)

SpecFields == InitFields /\ [][NextFields]_vars

\* Modify requests with those bodies, on the first task and on a task that
\* does not exist.
InitModifyFields == Loaded(CredMain, AuthzG)

NextModifyFields ==
    \/ CreateTask(NoHeader, PyDict(Full("u1")))
    \/ \E id \in {Uuid(1), "non-existent-task-id"}, d \in FieldModifyBodies : ModifyTask(NoHeader, id, d)

SpecModifyFields == InitModifyFields /\ [][NextModifyFields]_vars

\* Extension fields: bodies that pass the schema and carry keys outside it,
\* with string and non-string values, and the two timestamp keys.
ExtensionCreateBodies ==
    {PyDict(Full("u1")),
     PyDict(Put(Full("u1"), "extra", PyStr("e"))),
     PyDict(Put(Full("u1"), "extra", PyInt("123"))),
     PyDict(Put(Full("u1"), "extra", PyNone)),
     PyDict(Put(Put(Full("u1"), "extra", PyInt("123")), "other", PyBool("true"))),
     PyDict(Put(Full("u1"), "created_at", PyInt("5")))}

ExtensionModifyBodies ==
    {PyDict("extra" :> PyStr("e2")),
     PyDict("extra" :> PyInt("123")),
     PyDict("extra" :> PyList(<<PyStr("e")>>)),
     PyDict(("description" :> PyStr("d")) @@ ("extra" :> PyFloat("2.5"))),
     PyDict(("x" :> PyStr("s")) @@ ("task_id" :> PyInt("3"))),
     PyDict("updated_at" :> PyInt("7")),
     PyDict("created_at" :> PyInt("7"))}

InitExtensions == Loaded(CredMain, AuthzG)

NextExtensions ==
    \/ \E d \in ExtensionCreateBodies : CreateTask(NoHeader, d)
    \/ \E id \in {Uuid(1), "non-existent-task-id"}, d \in ExtensionModifyBodies : ModifyTask(NoHeader, id, d)

SpecExtensions == InitExtensions /\ [][NextExtensions]_vars

\* Partial updates: modify requests whose body is the empty object, one
\* optional field, or created_at, each sent without a task_id and with a
\* task_id that is another string, another task's id, or a number.
ModifyPlainBodies ==
    {PyDict(EmptyDict),
     PyDict("description" :> PyStr("d2")),
     PyDict("created_at" :> PyStr("x"))}

BodyTaskIds == {PyStr("zz"), PyStr(Uuid(2)), PyInt("3")}

WithTaskId(d, v) == PyDict(Put(d.d, "task_id", v))

PartialModifyBodies ==
    ModifyPlainBodies \cup {WithTaskId(d, v) : d \in ModifyPlainBodies, v \in BodyTaskIds}

InitModify == Loaded(CredMain, AuthzG)

NextModify ==
    \/ \E d \in {PyDict(Full("u1")), PyDict(Put(Full("u2"), "description", PyStr("d")))} :
          CreateTask(NoHeader, d)
    \/ \E id \in UrlTaskIds, d \in PartialModifyBodies : ModifyTask(NoHeader, id, d)

SpecModify == InitModify /\ [][NextModify]_vars

\* Bodies that are JSON but no object: arrays, strings, numbers, booleans.
NonObjectBodies ==
    {PyList(<<PyStr("x")>>), PyList(<<PyStr("date")>>), PyList(<<PyStr("task_id")>>), PyList(<<>>),
     PyStr("abc"), PyStr("date"), PyStr(""),
     PyInt("5"), PyInt("0"), PyFloat("2.5"), PyBool("true"), PyBool("false")}

InitBodies == Loaded(CredMain, AuthzG)

NextBodies ==
    \/ \E d \in NonObjectBodies \cup {PyDict(Full("u1"))} : CreateTask(NoHeader, d)
    \/ \E id \in {Uuid(1), "non-existent-task-id"}, d \in NonObjectBodies \cup {PyDict("description" :> PyStr("d2"))} :
          ModifyTask(NoHeader, id, d)

SpecBodies == InitBodies /\ [][NextBodies]_vars

\* Rejections: accepted and rejected bodies of the three writing views.
FrameCreateBodies ==
    {PyDict(Full("u1")),
     PyDict(Del(Full("u1"), "category")),
     PyDict(Put(Full("u1"), "extra", PyInt("123"))),
     PyDict(EmptyDict)}

FrameModifyBodies ==
    {PyDict("description" :> PyStr("d2")),
     PyDict("task_id" :> PyStr("zz")),
     PyDict("expected_hours" :> PyStr("x")),
     PyDict("extra" :> PyInt("123")),
     PyDict(EmptyDict)}

FrameCategoryBodies ==
    {PyDict("categories" :> PyStrList(<<"a", "b">>)),
     PyDict("categories" :> PyStrList(<<"c">>)),
     PyDict("cats" :> PyStrList(<<"a", "b">>)),
     PyDict("categories" :> PyStr("just a string")),
     PyDict("categories" :> PyList(<<PyStr("ok"), PyInt("123")>>)),
     PyDict(EmptyDict)}

InitFrame == Loaded(CredMain, AuthzG)

NextFrame ==
    \/ \E d \in FrameCreateBodies : CreateTask(NoHeader, d)
    \/ \E id \in {Uuid(1), "non-existent-task-id"}, d \in FrameModifyBodies : ModifyTask(NoHeader, id, d)
    \/ \E d \in FrameCategoryBodies : UpdateCategories(NoHeader, d)

SpecFrame == InitFrame /\ [][NextFrame]_vars

\* Start-up with well-formed, missing and malformed files: a list with an
\* entry that is no object, with an entry lacking a key, the empty list, an
\* object, a number.
CredBadEntry == SrcList(<<AuthItem("t1", "u1"), PyStr("t3")>>)

CredEmpty == SrcList(<<>>)

LoadAuthSources ==
    {CredMain, CredOdd, CredNoKey, CredBadEntry, CredEmpty, SrcMissing, SrcInvalid, SrcObject, SrcNumber}

AuthzBadEntry == SrcList(<<GroupItem("G1", <<"u1", "u2">>), PyStr("G2")>>)

AuthzNoKey == SrcList(<<GroupItem("G1", <<"u1", "u2">>), "group_name" :> "G2">>)

LoadAuthzSources ==
    {AuthzG, AuthzGuests, AuthzOdd, AuthzBadEntry, AuthzNoKey, SrcMissing, SrcInvalid, SrcObject, SrcNumber}

\* the import of app.auth went through
Imported ==
    /\ LoadException(auth_data, {"auth_token", "userid"}) \in CaughtByLoader \cup {""}
    /\ LoadException(authz_data, {"group_name", "userids"}) \in CaughtByLoader \cup {""}

InitLoad == Loaded(CredMain, AuthzG)

NextLoad ==
    \/ \E ad \in LoadAuthSources, az \in LoadAuthzSources : LoadAuthData(ad, az)
    \/ \E h \in {NoHeader, <<"Bearer", "t1">>, <<"Bearer", "t3">>} : Imported /\ CallGetAuthInfo(h)

SpecLoad == InitLoad /\ [][NextLoad]_vars

\* Categories PUT requests served concurrently, starting from the empty
\* collection.
ConcurrentCategoryBodies ==
    {PyDict("categories" :> PyList(<<>>)),
     PyDict("categories" :> PyList(<<PyStr("a")>>)),
     PyDict("categories" :> PyList(<<PyStr("a"), PyStr("b")>>))}

InitConcurrentCategories == Loaded(CredMain, AuthzG)

NextConcurrentCategories ==
    \/ \E h \in {NoHeader, <<"Bearer", "t1">>}, d \in ConcurrentCategoryBodies :
          UpdateCategoriesBegin(h, d)
    \/ \E i \in DOMAIN pending : UpdateCategoriesWrite(i)
    \/ GetCategories(NoHeader)

SpecConcurrentCategories == InitConcurrentCategories /\ [][NextConcurrentCategories]_vars

\* Modify requests served concurrently: bodies supplying the same field
\* with different values, and a field the others do not supply.
ConcurrentModifyBodies ==
    {PyDict("description" :> PyStr("d1")),
     PyDict(("description" :> PyStr("d2")) @@ ("task_id" :> PyStr("zz"))),
     PyDict(("description" :> PyStr("d1")) @@ ("expected_hours" :> PyFloat("3.5")))}

InitConcurrentModify == Loaded(CredMain, AuthzG)

NextConcurrentModify ==
    \/ CreateTask(NoHeader, PyDict(Full("u1")))
    \/ \E id \in {Uuid(1), "non-existent-task-id"}, d \in ConcurrentModifyBodies :
          ModifyTaskBegin(NoHeader, id, d)
    \/ \E i \in DOMAIN pending : ModifyTaskWrite(i)

SpecConcurrentModify == InitConcurrentModify /\ [][NextConcurrentModify]_vars

----------------------------------------------------------------------------
(* Properties *)

\* The credential list as the claims read it: the items of the file when it
\* loads, nothing when it does not.
CredentialItems ==
    IF auth_data.kind = "list"
       /\ \A i \in DOMAIN auth_data.items : {"auth_token", "userid"} \subseteq DOMAIN auth_data.items[i]
    THEN auth_data.items ELSE <<>>

MembershipItems ==
    IF authz_data.kind = "list"
       /\ \A i \in DOMAIN authz_data.items : {"group_name", "userids"} \subseteq DOMAIN authz_data.items[i]
    THEN authz_data.items ELSE <<>>

\* the userids the credential list pairs with a token
PairedUserids(tok) ==
    {CredentialItems[i]["userid"] : i \in {j \in DOMAIN CredentialItems : CredentialItems[j]["auth_token"] = tok}}

\* the groups whose member list contains a userid
GroupsListing(u) ==
    {MembershipItems[i].group_name : i \in {j \in DOMAIN MembershipItems : u \in Range(MembershipItems[j].userids)}}

\* the members of a set of groups
MembersOf(groups) ==
    UNION {Range(MembershipItems[i].userids) : i \in {j \in DOMAIN MembershipItems : MembershipItems[j].group_name \in groups}}

StrSet(pylist) == {pylist.items[i].s : i \in DOMAIN pylist.items}

\* C1: get_userid_from_token returns the userid the credential list pairs
\* with the token when the token is a non-empty string listed in it (exact
\* match), and "guest" for None, the empty string and every unlisted token.
C1_UseridFromToken ==
    last.op = "get_userid_from_token" =>
        LET tok == last.data
            res == last.body["result"].s
        IN IF tok.t = "str" /\ tok.s # "" /\ PairedUserids(tok.s) # {}
           THEN res \in PairedUserids(tok.s)
           ELSE res = "guest"

\* C1 witness: a listed token resolved to its userid, and the same token in
\* another case resolved to guest.
C1_Witness ==
    /\ last.op = "get_userid_from_token"
    /\ auth_data = CredMain
    /\ last.data = PyStr("t3")
    /\ last.body["result"] = PyStr("u3")

\* C2: get_groups_from_userid(u), as a set, is the set of groups whose member
\* list contains u when u is non-empty and that set is non-empty, and
\* {"Guests"} otherwise.
C2_GroupsFromUserid ==
    last.op = "get_groups_from_userid" =>
        LET u == last.data
            G == IF u.t = "str" /\ u.s # "" THEN GroupsListing(u.s) ELSE {}
        IN StrSet(last.body["result"]) = (IF G # {} THEN G ELSE {"Guests"})

\* C2 witness: a userid listed in two groups resolved to both.
C2_Witness ==
    /\ last.op = "get_groups_from_userid"
    /\ authz_data = AuthzG
    /\ last.data = PyStr("u2")
    /\ StrSet(last.body["result"]) = {"G1", "G2"}

\* the userid the callers of the views resolve to under CredMain
Who(auth_header) ==
    IF auth_header = <<"Bearer", "t1">> THEN "u1"
    ELSE IF auth_header = <<"Bearer", "t3">> THEN "u3"
    ELSE "guest"

\* the groups of a caller: the groups listing it, or Guests
GroupsOfCaller(u) == IF GroupsListing(u) # {} THEN GroupsListing(u) ELSE {"Guests"}

\* the stored tasks owned by one of the owners, as the response shows them
StoredOwnedBy(owners) ==
    {JsonDoc(tasks[i]) : i \in {j \in DOMAIN tasks : tasks[j]["userid"].s \in owners}}

Listed == {last.body["tasks"].items[i].d : i \in DOMAIN last.body["tasks"].items}

C4_OwnTasksListed ==
    last.op = "get_all_tasks" => StoredOwnedBy({Who(last.header)}) \subseteq Listed

\* C4: the state the claim fails in: guest lists, there is no Guests group,
\* and a task of guest is stored.
C4_Witness ==
    /\ last.op = "get_all_tasks"
    /\ last.header = NoHeader
    /\ authz_data = AuthzG
    /\ StoredOwnedBy({"guest"}) # {}

\* C5 as stated: the resolved auth context has a non-empty userid and a
\* non-empty groups collection, whatever the two lists hold.
C5_AuthContextNonEmpty ==
    last.op = "get_auth_info_from_request" =>
        /\ last.body["userid"].s # ""
        /\ last.body["groups"].items # <<>>

\* C5, the reachable violation: a credential record pairs token t3 with the
\* empty userid, and the header "Bearer t3" resolves to userid "".
C5_EmptyUseridResolved ==
    /\ last.op = "get_auth_info_from_request"
    /\ auth_data = CredOdd
    /\ last.body["userid"] = PyStr("")
    /\ last.body["groups"] = PyStrList(<<"Guests">>)

ViewOps ==
    {"list_users", "create_task", "modify_task", "get_task", "get_all_tasks",
     "get_categories", "update_categories"}

\* C6: every JSON answer of a view carries the userid and the groups resolved
\* from the request's token.
C6_ResponsesEchoAuth ==
    (last.op \in ViewOps /\ last.exc = "") =>
        /\ {"userid", "groups"} \subseteq DOMAIN last.body
        /\ last.body["userid"] = AuthInfo(last.header)["userid"]
        /\ last.body["groups"] = AuthInfo(last.header)["groups"]

\* C7: GET and PUT on /api/v1/categories reach get_categories and
\* update_categories.
C7_CategoriesServed ==
    (routed.path = <<"api", "v1", "categories">> /\ routed.method \in {"GET", "PUT"}) =>
        routed.endpoint = (IF routed.method = "GET" THEN "get_categories" ELSE "update_categories")

\* the answer to a get of the task last created, that task not modified since
GotFresh ==
    /\ last.op = "get_task"
    /\ fresh # NoFresh
    /\ last.url_id = fresh.task_id

\* C8 as stated: the record a get returns for a task just created has every
\* submitted field with its submitted value, task_id t, and both timestamps.
C8_RoundTripAllFields ==
    GotFresh =>
        /\ last.status = 200
        /\ \A f \in DOMAIN fresh.data.d : last.body["task"].d[f] = fresh.data.d[f]
        /\ last.body["task"].d["task_id"] = PyStr(fresh.task_id)
        /\ {"created_at", "updated_at"} \subseteq DOMAIN last.body["task"].d

ServerAssigned == {"task_id", "created_at", "updated_at"}

\* C8 amended: every submitted field other than task_id, created_at and
\* updated_at has its submitted value; task_id is t and both timestamps are
\* present.
C8_RoundTrip ==
    GotFresh =>
        /\ last.status = 200
        /\ \A f \in DOMAIN fresh.data.d \ ServerAssigned :
              /\ f \in DOMAIN last.body["task"].d
              /\ last.body["task"].d[f] = fresh.data.d[f]
        /\ last.body["task"].d["task_id"] = PyStr(fresh.task_id)
        /\ {"created_at", "updated_at"} \subseteq DOMAIN last.body["task"].d

\* C8 witness: the second task, created with an extension field and a
\* description, is fetched back.
C8_Witness ==
    /\ GotFresh
    /\ fresh.task_id = Uuid(2)
    /\ {"extra", "description"} \subseteq DOMAIN fresh.data.d
    /\ last.body["task"].d["extra"] = PyStr("e")

\* the stored record of the task last created
FreshDoc == tasks[FirstMatch(tasks, "task_id", PyStr(fresh.task_id))]

\* C9: a task record just created has updated_at equal to created_at.
C9_UpdatedEqualsCreated ==
    fresh # NoFresh => FreshDoc["updated_at"] = FreshDoc["created_at"]

\* C10: a create request whose body lacks required fields answers 400 with
\* an errors mapping holding the required-field message of each missing
\* field; task_id is never among them.
C10_MissingRequiredReported ==
    (last.op = "create_task" /\ last.data.t = "dict" /\ ~(RequiredFields \subseteq DOMAIN last.data.d)) =>
        /\ last.status = 400
        /\ "errors" \in DOMAIN last.body
        /\ \A f \in RequiredFields \ DOMAIN last.data.d :
              /\ f \in DOMAIN last.body["errors"].d
              /\ last.body["errors"].d[f] = PyStr("'" \o f \o "' is a required field.")
        /\ "task_id" \notin DOMAIN last.body["errors"].d

\* C10: the state the claim fails in: the empty object was sent.
C10_Witness ==
    /\ last.op = "create_task"
    /\ last.data = PyDict(EmptyDict)
    /\ last.status = 400

\* the requests validate_task_data sees a JSON object of: a create or a
\* modify whose body is a non-empty object
Validated == last.op \in {"create_task", "modify_task"} /\ last.data.t = "dict" /\ Truthy(last.data)

\* the error validate_task_data's answer carries for a field, "" when none
ReportedError(f) ==
    IF last.status = 400 /\ "errors" \in DOMAIN last.body /\ f \in DOMAIN last.body["errors"].d
    THEN last.body["errors"].d[f].s ELSE ""

\* C11: in create and in modify mode, for every schema field present in the
\* body the answer is 400 with "'<field>' must be of type <type>, but got
\* <actualType>." for that field exactly when the value's type is not the
\* declared one.
C11_TypeMismatchReported ==
    Validated =>
        \A f \in DOMAIN TASK_FIELDS \cap DOMAIN last.data.d :
            (last.data.d[f].t # TASK_FIELDS[f].type)
              <=> (ReportedError(f) = TypeMsg(f, TASK_FIELDS[f].type, last.data.d[f].t))

\* C11, the reachable violation: date is the integer 3 and the TypeError of
\* strptime leaves the view.
C11_DateTypeErrorEscapes ==
    /\ last.op = "create_task"
    /\ last.data = PyDict(Put(Full("u1"), "date", PyInt("3")))
    /\ last.status = 500
    /\ last.exc = "TypeError"

\* an exact YYYY-MM-DD calendar date: DDDD-DD-DD, month 1..12, day within
\* the month
IsIsoDate(s) ==
    LET cs == Chars(s)
        y  == 1000 * DigitVal(cs[1]) + 100 * DigitVal(cs[2]) + 10 * DigitVal(cs[3]) + DigitVal(cs[4])
        m  == 10 * DigitVal(cs[6]) + DigitVal(cs[7])
        dd == 10 * DigitVal(cs[9]) + DigitVal(cs[10])
    IN /\ Len(cs) = 10
       /\ \A i \in {1, 2, 3, 4, 6, 7, 9, 10} : IsDigit(cs[i])
       /\ cs[5] = "-" /\ cs[8] = "-"
       /\ y >= 1 /\ m \in 1..12 /\ dd \in 1..DaysInMonth(y, m)

\* C12: a string date passes exactly when it is an exact YYYY-MM-DD calendar
\* date; every other string is answered 400 with "'date' must be in
\* YYYY-MM-DD format.".
C12_DateExactFormat ==
    (Validated /\ "date" \in DOMAIN last.data.d /\ last.data.d["date"].t = "str") =>
        IF IsIsoDate(last.data.d["date"].s)
        THEN ReportedError("date") = ""
        ELSE ReportedError("date") = DateMsg("date")

\* C12, the reachable violation: the date "2023-1-3" is stored.
C12_UnpaddedDateAccepted ==
    /\ last.op = "create_task"
    /\ last.data = PyDict(Put(Full("u1"), "date", PyStr("2023-1-3")))
    /\ last.status = 201

\* the keys of a body that are neither schema fields nor created_at /
\* updated_at and hold a value that is no string
NonStringExtensions(d) ==
    {k \in DOMAIN d : k \notin DOMAIN TASK_FIELDS /\ k \notin {"created_at", "updated_at"} /\ d[k].t # "str"}

\* the body of a create or modify request passes schema validation
PassesSchema(op, data) ==
    LET v == validate_task_data(IF op = "modify_task" THEN PyDict(Del(data.d, "task_id")) ELSE data,
                                op = "create_task")
    IN v.raised = "" /\ v.errors = EmptyDict

\* C13: on create and on modify, a body that passes schema validation and
\* has a non-string extension field is answered 400 with the one message
\* "Arbitrary attribute '<key>' must be a string." and the store is left as
\* it was; a body whose extension fields are all strings is not rejected,
\* the datetime timestamps the server adds notwithstanding.
C13_ArbitraryAttributeRule ==
    [][(/\ last'.op \in {"create_task", "modify_task"}
        /\ last'.data.t = "dict"
        /\ Truthy(last'.data)
        /\ PassesSchema(last'.op, last'.data))
       => IF NonStringExtensions(last'.data.d) # {}
          THEN /\ last'.status = 400
               /\ \E k \in NonStringExtensions(last'.data.d) :
                     last'.body = Merge(AuthInfo(last'.header), ErrorBody(ArbitraryMsg(k)))
               /\ tasks' = tasks
          ELSE last'.status \in {200, 201, 404}]_vars

\* C13 witness: a modify of the stored first task with {"extra": 123} was
\* answered 400 with the message naming extra.
C13_Witness ==
    /\ last.op = "modify_task"
    /\ last.url_id = Uuid(1)
    /\ last.data = PyDict("extra" :> PyInt("123"))
    /\ last.status = 400
    /\ last.body["message"] = PyStr("Arbitrary attribute 'extra' must be a string.")
    /\ Len(tasks) = 2
    /\ "extra" \in DOMAIN tasks[1]

\* a stored record has the task_id
Stored(task_id) == FirstMatch(tasks, "task_id", PyStr(task_id)) # 0

\* a body modify_task has nothing to object to: a JSON object whose schema
\* fields pass validation and whose extension fields are strings
ValidModifyBody(data) ==
    /\ data.t = "dict"
    /\ PassesSchema("modify_task", data)
    /\ NonStringExtensions(data.d) = {}

\* C14: a modify request on an existing task whose body is a JSON object
\* with valid supplied fields, the empty object included, is answered with
\* success.
C14_PartialModifyAccepted ==
    (last.op = "modify_task" /\ ValidModifyBody(last.data) /\ Stored(last.url_id)) =>
        last.status = 200

\* C14, the reachable violation: the empty object sent to a stored task is
\* answered 400.
C14_EmptyObjectRejected ==
    /\ last.op = "modify_task"
    /\ last.data = PyDict(EmptyDict)
    /\ Stored(last.url_id)
    /\ last.status = 400
    /\ last.body["message"] = PyStr("Request must be JSON")

\* the stores a modify of task_id with body d can leave
ModifyOutcomes(task_id, d) ==
    {tasks} \cup {MongoUpdateTask(tasks, task_id, Put(d.d, "updated_at", PyDatetime(t))).coll :
                    t \in clock..MaxClock}

\* modify requests with bodies d1 and d2 on the same URL task_id have the
\* same possible outcomes (status and resulting store) in this state
SameModifyOutcome(task_id, d1, d2) ==
    \A st \in {200, 400, 404, 500}, coll \in ModifyOutcomes(task_id, d1) \cup ModifyOutcomes(task_id, d2) :
        (ENABLED (ModifyTask(NoHeader, task_id, d1) /\ last'.status = st /\ tasks' = coll))
          <=> (ENABLED (ModifyTask(NoHeader, task_id, d2) /\ last'.status = st /\ tasks' = coll))

\* every stored record still has the task_id its create call drew
TaskIdsKept ==
    \A i \in DOMAIN tasks : tasks[i]["task_id"] = PyStr(Uuid(tasks[i]["_id"].n))

\* C15: a modify request on URL task_id t has the same status and leaves the
\* same store whether its body omits task_id or carries one of any value,
\* and the stored record's task_id stays t.
C15_BodyTaskIdIgnored ==
    /\ TaskIdsKept
    /\ \A id \in UrlTaskIds, d \in ModifyPlainBodies, v \in BodyTaskIds :
          SameModifyOutcome(id, d, WithTaskId(d, v))

\* C15, the reachable violation: with the first task stored, the empty
\* object is answered 400 and the body {"task_id": "zz"} is answered 200.
C15_EmptyObjectDiffers ==
    /\ Stored(Uuid(1))
    /\ ENABLED (ModifyTask(NoHeader, Uuid(1), PyDict(EmptyDict)) /\ last'.status = 400)
    /\ ~ENABLED (ModifyTask(NoHeader, Uuid(1), PyDict("task_id" :> PyStr("zz"))) /\ last'.status = 400)
    /\ ENABLED (ModifyTask(NoHeader, Uuid(1), PyDict("task_id" :> PyStr("zz"))) /\ last'.status = 200)

\* C16: a modify request with a valid body is answered 404 exactly when no
\* stored record has the URL task_id, and 200 whenever one has.
C16_NotFoundIffAbsent ==
    (last.op = "modify_task" /\ ValidModifyBody(last.data) /\ Truthy(last.data)) =>
        /\ (last.status = 404) <=> ~Stored(last.url_id)
        /\ Stored(last.url_id) => last.status = 200

\* C16, the reachable violation: the record exists and the answer is 404,
\* the update having changed nothing.
C16_ExistingTaskNotFound ==
    /\ last.op = "modify_task"
    /\ Stored(last.url_id)
    /\ last.status = 404

\* the index of the record a modify addressed
Target == FirstMatch(tasks, "task_id", PyStr(last'.url_id))

\* C17 as stated: after a successful modify of task t every field supplied
\* in the body has the supplied value, updated_at has the server time, and
\* every other field of t and every other record is as before.
C17_MergeAllSupplied ==
    [][(last'.op = "modify_task" /\ last'.status = 200) =>
          /\ \A k \in DOMAIN last'.data.d \ {"updated_at"} :
                /\ k \in DOMAIN tasks'[Target]
                /\ tasks'[Target][k] = last'.data.d[k]
          /\ tasks'[Target]["updated_at"] = PyDatetime(clock')
          /\ DOMAIN tasks'[Target] = DOMAIN tasks[Target] \cup DOMAIN last'.data.d \cup {"updated_at"}
          /\ \A k \in DOMAIN tasks[Target] \ (DOMAIN last'.data.d \cup {"updated_at"}) :
                tasks'[Target][k] = tasks[Target][k]
          /\ DOMAIN tasks' = DOMAIN tasks
          /\ \A i \in DOMAIN tasks \ {Target} : tasks'[i] = tasks[i]]_vars

\* the fields of a modify body that reach the record
Merged(d) == DOMAIN d \ {"task_id", "updated_at"}

\* C17 amended: every supplied field other than task_id and updated_at has
\* the supplied value, updated_at has the server time, and every other field
\* of t (task_id included) and every other record is as before.
C17_FieldMerge ==
    [][(last'.op = "modify_task" /\ last'.status = 200) =>
          /\ Target # 0
          /\ \A k \in Merged(last'.data.d) :
                /\ k \in DOMAIN tasks'[Target]
                /\ tasks'[Target][k] = last'.data.d[k]
          /\ tasks'[Target]["updated_at"] = PyDatetime(clock')
          /\ DOMAIN tasks'[Target] = DOMAIN tasks[Target] \cup Merged(last'.data.d) \cup {"updated_at"}
          /\ \A k \in DOMAIN tasks[Target] \ (Merged(last'.data.d) \cup {"updated_at"}) :
                tasks'[Target][k] = tasks[Target][k]
          /\ DOMAIN tasks' = DOMAIN tasks
          /\ \A i \in DOMAIN tasks \ {Target} : tasks'[i] = tasks[i]]_vars

\* C17 witness: with two tasks stored, the first was given a description by
\* a body that also named the second task's id.
C17_Witness ==
    /\ last.op = "modify_task"
    /\ last.status = 200
    /\ last.url_id = Uuid(1)
    /\ last.data = WithTaskId(PyDict("description" :> PyStr("d2")), PyStr(Uuid(2)))
    /\ Len(tasks) = 2
    /\ tasks[1]["description"] = PyStr("d2")
    /\ tasks[1]["task_id"] = PyStr(Uuid(1))
    /\ tasks[2]["userid"] = PyStr("u2")
    /\ tasks[2]["description"] = PyStr("d")

\* C18: the created_at of a stored task never changes.
C18_CreatedAtSetOnce ==
    [][\A i \in DOMAIN tasks : tasks'[i]["created_at"] = tasks[i]["created_at"]]_vars

\* C18, the reachable violation: a stored created_at is the string a modify
\* body sent.
C18_CreatedAtOverwritten ==
    \E i \in DOMAIN tasks : tasks[i]["created_at"] = PyStr("x")

Unechoed(body) == [k \in DOMAIN body \ {"userid", "groups"} |-> body[k]]

\* C20: the status and the task record get_task returns depend on the store
\* and the task_id alone; the caller shows only in the echoed userid and
\* groups.
C20_GetTaskUnfiltered ==
    last.op = "get_task" =>
        IF Stored(last.url_id)
        THEN /\ last.status = 200
             /\ Unechoed(last.body) =
                  ("status" :> PyStr("success"))
                  @@ ("task" :> PyDict(JsonDoc(tasks[FirstMatch(tasks, "task_id", PyStr(last.url_id))])))
        ELSE /\ last.status = 404
             /\ Unechoed(last.body) = ErrorBody("Task not found")

\* C20 witness: u1, a member of G1 only, got the task of u3, a member of G2
\* only.
C20_Witness ==
    /\ last.op = "get_task"
    /\ last.header = <<"Bearer", "t1">>
    /\ last.status = 200
    /\ last.body["userid"] = PyStr("u1")
    /\ last.body["groups"] = PyStrList(<<"G1">>)
    /\ last.body["task"].d["userid"] = PyStr("u3")

\* C21: GET categories returns the list of the last successful PUT, and the
\* empty list when none has succeeded.  Step by step: a successful PUT leaves
\* one document holding the body's list (so a second PUT overwrites the first
\* and an identical one changes nothing), any other PUT and every GET leave
\* the collection alone, and a GET answers with the stored list, or [] when
\* nothing is stored.
C21_GetReturnsLastPut ==
    [][/\ (last'.op = "update_categories" /\ last'.status = 200) =>
             /\ Len(categories') = 1
             /\ categories'[1]["categories"] = last'.data.d["categories"]
             /\ (categories # <<>> /\ categories[1]["categories"] = last'.data.d["categories"]
                 /\ DOMAIN last'.data.d = {"categories"} /\ DOMAIN categories[1] = {"categories", "_id"})
                   => categories' = categories
       /\ (last'.op = "update_categories" /\ last'.status # 200) => categories' = categories
       /\ last'.op = "get_categories" =>
             /\ categories' = categories
             /\ last'.status = 200
             /\ last'.body["categories"] =
                  (IF categories = <<>> THEN PyList(<<>>) ELSE categories[1]["categories"])]_vars

\* C21 witness: a PUT of ["c"] replaced a stored list that was another one.
C21_Witness ==
    /\ last.op = "update_categories"
    /\ last.status = 200
    /\ last.data = PyDict("categories" :> PyStrList(<<"c">>))
    /\ last.body["matched_count"] = PyInt("1")
    /\ last.body["modified_count"] = PyInt("1")
    /\ categories = <<("categories" :> PyStrList(<<"c">>)) @@ ("_id" :> ObjectId(0))>>

\* a body that is an object with the one key categories holding a list of
\* strings
OnlyCategoriesList(data) ==
    /\ data.t = "dict"
    /\ DOMAIN data.d = {"categories"}
    /\ data.d["categories"].t = "list"
    /\ \A x \in Range(data.d["categories"].items) : x.t = "str"

\* C23: a categories PUT whose body is an object is accepted exactly when
\* the body has the one key categories holding a list of strings, and is
\* answered 400 otherwise.
C23_ExactlyCategoriesKey ==
    (last.op = "update_categories" /\ last.data.t = "dict") =>
        IF OnlyCategoriesList(last.data) THEN last.status = 200 ELSE last.status = 400

\* C23, the reachable violation: a body with the additional key userid was
\* accepted and stored whole.
C23_AdditionalKeyStored ==
    /\ last.op = "update_categories"
    /\ last.status = 200
    /\ "userid" \in DOMAIN last.data.d
    /\ "userid" \in DOMAIN categories[1]

\* the positions of the credential records with a token
RecordsWithToken(tok) == {i \in DOMAIN CredentialItems : CredentialItems[i]["auth_token"] = tok}

\* get_userid_from_token was called with a token several records share
SharedTokenResolved ==
    /\ last.op = "get_userid_from_token"
    /\ last.data.t = "str"
    /\ last.data.s # ""
    /\ Cardinality(RecordsWithToken(last.data.s)) >= 2

\* C25 as stated: a token several records share resolves to the userid of
\* the first of them in list order.
C25_FirstRecordWins ==
    SharedTokenResolved =>
        LET i == CHOOSE k \in RecordsWithToken(last.data.s) : \A j \in RecordsWithToken(last.data.s) : k <= j
        IN last.body["result"] = PyStr(CredentialItems[i]["userid"])

\* C25 amended: it resolves to the userid of the last of them in list order.
C25_LastRecordWins ==
    SharedTokenResolved =>
        LET i == CHOOSE k \in RecordsWithToken(last.data.s) : \A j \in RecordsWithToken(last.data.s) : k >= j
        IN last.body["result"] = PyStr(CredentialItems[i]["userid"])

\* C25 witness: t1 is listed for u1 and then for u2, and resolves to u2.
C25_Witness ==
    /\ SharedTokenResolved
    /\ auth_data = CredOdd
    /\ last.data = PyStr("t1")
    /\ last.body["result"] = PyStr("u2")

\* C26: a date present with a value that is no string is answered 400 with
\* the one message "'date' must be in YYYY-MM-DD format." for date.
C26_NonStringDateLastCheckWins ==
    (Validated /\ "date" \in DOMAIN last.data.d /\ last.data.d["date"].t # "str") =>
        /\ last.status = 400
        /\ ReportedError("date") = DateMsg("date")

\* C26, the reachable violation: date is true and the request ends in the
\* TypeError of strptime.
C26_BooleanDateUnhandled ==
    /\ last.op = "create_task"
    /\ last.data = PyDict(Put(Full("u1"), "date", PyBool("true")))
    /\ last.status = 500
    /\ last.exc = "TypeError"
    /\ last.body = EmptyDict

\* C27: a create or modify request whose JSON body is an array, a string, a
\* number or a boolean is answered 400, leaves the store as it was, and no
\* exception leaves the view.
C27_NonObjectRejected ==
    [][(last'.op \in {"create_task", "modify_task"} /\ last'.data.t \in {"list", "str", "int", "float", "bool"}) =>
          /\ last'.status = 400
          /\ last'.exc = ""
          /\ tasks' = tasks]_vars

\* C27, the reachable violation: the body 5 sent to create_task ends in an
\* unhandled TypeError.
C27_NumberBodyUnhandled ==
    /\ last.op = "create_task"
    /\ last.data = PyInt("5")
    /\ last.status = 500
    /\ last.exc = "TypeError"

\* C29: a create, modify or categories PUT request answered 400 or 404
\* leaves the task collection and the categories collection as they were;
\* stored data changes only in a request answered with success.
C29_RejectionsChangeNothing ==
    [][/\ (last'.op \in {"create_task", "modify_task", "update_categories"} /\ last'.status \in {400, 404})
             => (tasks' = tasks /\ categories' = categories)
       /\ (tasks' # tasks \/ categories' # categories)
             => (last'.op \in {"create_task", "modify_task", "update_categories"} /\ last'.status \in {200, 201})]_vars

\* C29 witness: with a task and a categories document stored, a modify of
\* the task was answered 400 for its extension field.
C29_Witness ==
    /\ last.op = "modify_task"
    /\ last.url_id = Uuid(1)
    /\ last.data = PyDict("extra" :> PyInt("123"))
    /\ last.status = 400
    /\ tasks # <<>>
    /\ categories # <<>>

\* a source that is missing or malformed
Malformed(src, keys) == LoadException(src, keys) # ""

\* C24: whatever is wrong with a source, _load_auth_data completes; the
\* resolver of a missing or malformed source then answers "guest" for every
\* token (["Guests"] for every userid), and the other resolver's map is the
\* one its own source gives.
C24_LoadNeverFails ==
    last.op = "_load_auth_data" =>
        /\ last.exc = ""
        /\ Malformed(auth_data, {"auth_token", "userid"}) =>
              \A tok \in Tokens : get_userid_from_token(tok) = "guest"
        /\ Malformed(authz_data, {"group_name", "userids"}) =>
              \A u \in Userids : get_groups_from_userid(u) = <<"Guests">>
        /\ ~Malformed(auth_data, {"auth_token", "userid"}) =>
              token_to_userid_map = TokenDictComp(auth_data.items, EmptyDict)
        /\ ~Malformed(authz_data, {"group_name", "userids"}) =>
              userid_to_groups_map = InvertGroups(authz_data.items, EmptyDict)

\* C24, the reachable violation: the credential file holds a JSON object,
\* the loader ends in a TypeError, and the membership file, which is well
\* formed, was never read.
C24_TypeErrorLeavesLoader ==
    /\ last.op = "_load_auth_data"
    /\ last.exc = "TypeError"
    /\ auth_data = SrcObject
    /\ authz_data = AuthzG
    /\ userid_to_groups_map = EmptyDict

\* C24, the part that holds: for the failures the loader catches (a missing
\* file, invalid JSON, an object entry lacking a key) the claim is true.
C24_CaughtFailuresDegrade ==
    (last.op = "_load_auth_data" /\ Imported) =>
        /\ last.exc = ""
        /\ Malformed(auth_data, {"auth_token", "userid"}) =>
              \A tok \in Tokens : get_userid_from_token(tok) = "guest"
        /\ Malformed(authz_data, {"group_name", "userids"}) =>
              \A u \in Userids : get_groups_from_userid(u) = <<"Guests">>
        /\ ~Malformed(auth_data, {"auth_token", "userid"}) =>
              token_to_userid_map = TokenDictComp(auth_data.items, EmptyDict)
        /\ ~Malformed(authz_data, {"group_name", "userids"}) =>
              userid_to_groups_map = InvertGroups(authz_data.items, EmptyDict)

\* C22: starting from the empty collection, under every interleaving of
\* concurrent categories PUT requests the collection holds at most one
\* document.
C22_AtMostOneDocument == Len(categories) <= 1

\* C22, the reachable violation: two PUT requests both looked for the
\* document while the collection was empty, both inserted, and the
\* collection holds two documents.
C22_TwoDocuments ==
    /\ Len(pending) = 2
    /\ \A i \in DOMAIN pending : pending[i].done /\ ~pending[i].matched
    /\ Len(categories) = 2

\* the modify requests on task_id whose write reached the store and found
\* the task
WritesOn(task_id) ==
    {i \in DOMAIN pending : /\ pending[i].op = "modify_task"
                            /\ pending[i].done
                            /\ pending[i].found
                            /\ pending[i].url_id = task_id}

\* the one of a non-empty set of writes that reached the store first, last
FirstWrite(W) == CHOOSE i \in W : \A j \in W : pending[i].seq <= pending[j].seq

LastWrite(W) == CHOOSE i \in W : \A j \in W : pending[j].seq <= pending[i].seq

\* the field merges of the writes W applied to doc one after the other, in
\* the order the writes reached the store
RECURSIVE MergedInWriteOrder(_, _)
MergedInWriteOrder(doc, W) ==
    IF W = {} THEN doc
    ELSE MergedInWriteOrder(Merge(doc, pending[FirstWrite(W)].set), W \ {FirstWrite(W)})

\* C28: for concurrent valid modify requests on the same existing task,
\* under every interleaving the stored record is the record the first write
\* found with the field merges applied in the order the writes reached the
\* store: a field supplied by several requests (updated_at included) holds
\* the value of the one whose write arrived last, and a field supplied by one
\* holds that request's value.
C28_LastWriteWins ==
    \A task_id \in {Uuid(n) : n \in 1..uuid_count} :
        LET W == WritesOn(task_id)
            stored == tasks[FirstMatch(tasks, "task_id", PyStr(task_id))]
        IN W # {} =>
             /\ stored = MergedInWriteOrder(pending[FirstWrite(W)].before, W)
             /\ \A key \in DOMAIN stored :
                   LET S == {i \in W : key \in DOMAIN pending[i].set}
                   IN S # {} => stored[key] = pending[LastWrite(S)].set[key]

\* C28, its case: two modify requests on the same task, the one that began
\* first and read the clock first writing last; both supply description, one
\* alone expected_hours, and the record holds the description and the earlier
\* updated_at of the write that arrived last and the expected_hours of the
\* other.
C28_Witness ==
    /\ Len(pending) = 2
    /\ WritesOn(Uuid(1)) = {1, 2}
    /\ pending[1].seq = 2
    /\ pending[2].seq = 1
    /\ pending[1].set["description"] = PyStr("d2")
    /\ pending[2].set["description"] = PyStr("d1")
    /\ "expected_hours" \in DOMAIN pending[2].set
    /\ pending[1].set["updated_at"] = PyDatetime(0)
    /\ pending[2].set["updated_at"] = PyDatetime(1)
    /\ LET stored == tasks[FirstMatch(tasks, "task_id", PyStr(Uuid(1)))]
       IN /\ stored["description"] = PyStr("d2")
          /\ stored["updated_at"] = PyDatetime(0)
          /\ stored["expected_hours"] = PyFloat("3.5")

====
